---- MODULE Spec2Model ----
(***************************************************************************)
(* Model of src/database.py: the trait_measurements schema, the column     *)
(* normalizer, the row coercer, the chunked bulk loader and the reader.    *)
(*                                                                         *)
(* Text (CSV cells, connection strings) is a sequence of one-character     *)
(* strings, so that stripping and parsing are computed, not assumed.       *)
(* A value held in a DataFrame cell, a record or a stored row is a tagged  *)
(* record:                                                                 *)
(*   [t |-> "str", s |-> chars]     a Python str                           *)
(*   [t |-> "int", m |-> n]         an int64 cell                          *)
(*   [t |-> "float", m |-> n, e |-> k]   the float n / 10^k                *)
(*   [t |-> "nan"]                  float NaN                              *)
(*   [t |-> "ts", y, mo, d]         a UTC timestamp                        *)
(*   [t |-> "NaT"]                  pandas' not-a-time                     *)
(*   [t |-> "None"]                 Python None                            *)
(*   [t |-> "NULL"], [t |-> "now"]  SQL NULL, the server's now()           *)
(***************************************************************************)
EXTENDS Integers, Sequences, FiniteSets, TLC

VARIABLES
    environ,     \* os.environ restricted to NEON_DATABASE_URL
    csv,         \* the CSV file at csv_path: [header, rows]
    schema,      \* the schema objects that exist in the database
    table,       \* committed rows of trait_measurements, in insertion order
    nextId,      \* next value of the id sequence
    pc,          \* "idle", or "loop" inside insert_csv_to_database's for loop
    load,        \* locals of the running insert_csv_to_database call
    calls,       \* completed calls, oldest first, each with its outcome
    df,          \* argument of a direct _normalize_columns call
    out          \* what that call produced

vars == <<environ, csv, schema, table, nextId, pc, load, calls, df, out>>

(***************************************************************************)
(* Bounds of the model.                                                    *)
(***************************************************************************)
MaxRows == 3         \* data rows of the CSV file
MaxChunk == 3        \* chunk_size ranges over 1..MaxChunk
MaxCalls == 2        \* public operations called in one behaviour
MaxFailures == 1     \* connection failures in one behaviour

\* range(1, 15)
NumAxes == 14

(***************************************************************************)
(* Text helpers.                                                           *)
(***************************************************************************)
Digit == <<"0", "1", "2", "3", "4", "5", "6", "7", "8", "9">>

IsDigit(c) == \E i \in 1..10 : Digit[i] = c

DigitVal(c) == (CHOOSE i \in 1..10 : Digit[i] = c) - 1

RECURSIVE DigitsToNat(_)
DigitsToNat(s) ==
    IF s = <<>> THEN 0
    ELSE 10 * DigitsToNat(SubSeq(s, 1, Len(s) - 1)) + DigitVal(s[Len(s)])

RECURSIVE NatToDigits(_)
NatToDigits(n) ==
    IF n < 10 THEN <<Digit[n + 1]>>
    ELSE NatToDigits(n \div 10) \o <<Digit[(n % 10) + 1]>>

IsSpace(c) == c = " "

RECURSIVE LStrip(_)
LStrip(s) == IF s # <<>> /\ IsSpace(s[1]) THEN LStrip(Tail(s)) ELSE s

RECURSIVE RStrip(_)
RStrip(s) ==
    IF s # <<>> /\ IsSpace(s[Len(s)]) THEN RStrip(SubSeq(s, 1, Len(s) - 1)) ELSE s

\* str.strip()
Strip(s) == RStrip(LStrip(s))

(***************************************************************************)
(* Values.                                                                 *)
(***************************************************************************)
None == [t |-> "None"]
NaN == [t |-> "nan"]
NaT == [t |-> "NaT"]
SqlNull == [t |-> "NULL"]
SqlNow == [t |-> "now"]
Str(s) == [t |-> "str", s |-> s]

\* pd.notnull on one cell
NotNull(v) == v.t \notin {"None", "nan", "NaT"}

RECURSIVE TrimZeros(_, _)
TrimZeros(m, e) ==
    IF e > 0 /\ m % 10 = 0 THEN TrimZeros(m \div 10, e - 1)
    ELSE [t |-> "float", m |-> m, e |-> e]

IsNumeral(s) ==
    LET body == IF s # <<>> /\ s[1] = "-" THEN Tail(s) ELSE s
        dots == {i \in DOMAIN body : body[i] = "."}
    IN  /\ Cardinality(dots) <= 1
        /\ \A i \in DOMAIN body \ dots : IsDigit(body[i])
        /\ Len(body) > Cardinality(dots)

\* The float a numeral denotes: [-]digits[.digits]
ParseFloat(s) ==
    LET neg == s[1] = "-"
        body == IF neg THEN Tail(s) ELSE s
        dots == {i \in DOMAIN body : body[i] = "."}
        e == IF dots = {} THEN 0 ELSE Len(body) - (CHOOSE i \in dots : TRUE)
        m == DigitsToNat(SelectSeq(body, IsDigit))
    IN  TrimZeros(IF neg THEN 0 - m ELSE m, e)

IsIntNumeral(s) == IsNumeral(s) /\ \A i \in DOMAIN s : s[i] # "."

ParseInt(s) ==
    LET neg == s[1] = "-"
        m == DigitsToNat(IF neg THEN Tail(s) ELSE s)
    IN  [t |-> "int", m |-> IF neg THEN 0 - m ELSE m]

\* str(n) of an int, as the driver renders it and the server casts it to text
IntToText(v) ==
    IF v.m < 0 THEN <<"-">> \o NatToDigits(0 - v.m) ELSE NatToDigits(v.m)

(***************************************************************************)
(* Column names.                                                           *)
(***************************************************************************)
\* f"Axis #{axis}" and f"axis_{axis}"
CsvAxis(i) == "Axis #" \o ToString(i)

DbAxis(i) == "axis_" \o ToString(i)

AxisNames == {DbAxis(i) : i \in 1..NumAxes}

\* renamed: the CSV name -> database name mapping
renamed ==
    [n \in {"Trait", "Time"} \cup {CsvAxis(i) : i \in 1..NumAxes} |->
        IF n = "Trait" THEN "trait"
        ELSE IF n = "Time" THEN "recorded_at"
        ELSE DbAxis(CHOOSE i \in 1..NumAxes : CsvAxis(i) = n)]

ordered_columns ==
    <<"trait">> \o [i \in 1..NumAxes |-> DbAxis(i)] \o <<"recorded_at">>

expected == {ordered_columns[i] : i \in DOMAIN ordered_columns}

\* The database names in Python's string order, which sorted() uses
SortedNames ==
    <<"axis_1", "axis_10", "axis_11", "axis_12", "axis_13", "axis_14",
      "axis_2", "axis_3", "axis_4", "axis_5", "axis_6", "axis_7", "axis_8",
      "axis_9", "recorded_at", "trait">>

Range(s) == {s[i] : i \in DOMAIN s}

RECURSIVE Flatten(_)
Flatten(ss) == IF ss = <<>> THEN <<>> ELSE Head(ss) \o Flatten(Tail(ss))

(***************************************************************************)
(* pd.read_csv(csv_path, chunksize=chunk_size): a DataFrame is             *)
(* [columns, dtypes, data], data a sequence of rows aligned with columns.  *)
(* The dtype of a column is inferred from the cells of the chunk alone.    *)
(***************************************************************************)
InferDtype(cells) ==
    IF cells = <<>> THEN "object"
    ELSE IF \A i \in DOMAIN cells : cells[i] = <<>> THEN "float64"
    ELSE IF \A i \in DOMAIN cells : IsIntNumeral(cells[i]) THEN "int64"
    ELSE IF \A i \in DOMAIN cells : cells[i] = <<>> \/ IsNumeral(cells[i])
         THEN "float64"
    ELSE "object"

ReadCell(cell, dtype) ==
    IF dtype = "int64" THEN ParseInt(cell)
    ELSE IF cell = <<>> THEN NaN
    ELSE IF dtype = "float64" THEN ParseFloat(cell)
    ELSE Str(cell)

\* The chunk holding rows from+1 .. min(from+n, number of rows) of the file
ReadChunk(file, from, n) ==
    LET to == IF from + n < Len(file.rows) THEN from + n ELSE Len(file.rows)
        raw == SubSeq(file.rows, from + 1, to)
        dt == [j \in DOMAIN file.header |->
                 InferDtype([r \in DOMAIN raw |-> raw[r][j]])]
    IN  [columns |-> file.header,
         dtypes |-> dt,
         data |-> [r \in DOMAIN raw |->
                     [j \in DOMAIN file.header |-> ReadCell(raw[r][j], dt[j])]]]

\* The iterator yields one empty chunk for a file that has a header and no
\* data rows, and otherwise stops after the last row.
HasNextChunk(file, from, first) ==
    from < Len(file.rows) \/ (first /\ Len(file.rows) = 0)

(***************************************************************************)
(* _normalize_columns                                                      *)
(***************************************************************************)
Rename(n) == IF n \in DOMAIN renamed THEN renamed[n] ELSE n

\* Faulty variant: the wanted columns kept in the order of the input
SelectPositionsInputOrder(columns, wanted) ==
    SelectSeq([j \in DOMAIN columns |-> j],
              LAMBDA j : columns[j] \in Range(wanted))

\* df[ordered_columns]: for each requested label in turn, every column that
\* carries it
SelectPositions(columns, wanted) ==
    Flatten([k \in DOMAIN wanted |->
        SelectSeq([j \in DOMAIN columns |-> j],
                  LAMBDA j : columns[j] = wanted[k])])

\* Faulty variant: the error names the first missing column only
_normalize_columns_first_missing(d) ==
    LET cols == [j \in DOMAIN d.columns |-> Rename(d.columns[j])]
        missing == expected \ Range(cols)
        pos == SelectPositions(cols, ordered_columns)
    IN  IF missing # {}
        THEN [ok |-> FALSE, error |-> "ValueError",
              message |-> SubSeq(SelectSeq(SortedNames, LAMBDA n : n \in missing),
                                 1, 1)]
        ELSE [ok |-> TRUE,
              frame |-> [columns |-> [k \in DOMAIN pos |-> cols[pos[k]]],
                         dtypes |-> [k \in DOMAIN pos |-> d.dtypes[pos[k]]],
                         data |-> [r \in DOMAIN d.data |->
                                     [k \in DOMAIN pos |-> d.data[r][pos[k]]]]]]

_normalize_columns(d) ==
    LET cols == [j \in DOMAIN d.columns |-> Rename(d.columns[j])]
        missing == expected \ Range(cols)
        pos == SelectPositions(cols, ordered_columns)
    IN  IF missing # {}
        THEN [ok |-> FALSE, error |-> "ValueError",
              message |-> SelectSeq(SortedNames, LAMBDA n : n \in missing)]
        ELSE [ok |-> TRUE,
              frame |-> [columns |-> [k \in DOMAIN pos |-> cols[pos[k]]],
                         dtypes |-> [k \in DOMAIN pos |-> d.dtypes[pos[k]]],
                         data |-> [r \in DOMAIN d.data |->
                                     [k \in DOMAIN pos |-> d.data[r][pos[k]]]]]]

(***************************************************************************)
(* _coerce_rows                                                            *)
(***************************************************************************)
IsDate(s) ==
    /\ Len(s) = 10
    /\ s[5] = "-" /\ s[8] = "-"
    /\ \A i \in {1, 2, 3, 4, 6, 7, 9, 10} : IsDigit(s[i])
    /\ DigitsToNat(SubSeq(s, 6, 7)) \in 1..12
    /\ DigitsToNat(SubSeq(s, 9, 10)) \in 1..28

\* pd.to_datetime(..., errors="coerce", utc=True) on one cell
to_datetime(v) ==
    IF v.t = "str" /\ IsDate(v.s)
    THEN [t |-> "ts", y |-> DigitsToNat(SubSeq(v.s, 1, 4)),
          mo |-> DigitsToNat(SubSeq(v.s, 6, 7)),
          d |-> DigitsToNat(SubSeq(v.s, 9, 10))]
    ELSE NaT

\* pd.to_numeric(..., errors="coerce") on one cell
to_numeric(v) ==
    IF v.t = "str" THEN (IF IsNumeral(v.s) THEN ParseFloat(v.s) ELSE NaN)
    ELSE IF v.t = "int" THEN [t |-> "float", m |-> v.m, e |-> 0]
    ELSE v

\* df.where(pd.notnull(df), None) on one cell of a column of the given
\* dtype.  where() fills with the missing value of the column's own dtype:
\* None survives in an object column only; in a float64 column it is NaN and
\* in a datetime64 column NaT.
WhereNotNull(v, dtype) ==
    IF NotNull(v) THEN v
    ELSE IF dtype = "object" THEN None
    ELSE IF dtype = "datetime64" THEN NaT
    ELSE NaN

\* One record of df.to_dict(orient="records"), for a normalized frame
CoerceRow(d, r) ==
    [c \in expected |->
        LET j == CHOOSE k \in DOMAIN d.columns : d.columns[k] = c
            v == d.data[r][j]
        IN  IF c = "recorded_at" THEN WhereNotNull(to_datetime(v), "datetime64")
            ELSE IF c \in AxisNames THEN WhereNotNull(to_numeric(v), "float64")
            ELSE WhereNotNull(v, d.dtypes[j])]

_coerce_rows(d) == [r \in DOMAIN d.data |-> CoerceRow(d, r)]

(***************************************************************************)
(* Connection string: get_database_url, get_engine.                        *)
(***************************************************************************)
EnvName == "NEON_DATABASE_URL"

\* os.getenv(name, default)
getenv(name, default) ==
    IF name \in DOMAIN environ THEN environ[name] ELSE default

\* Faulty variant: the value is not stripped
get_database_url_unstripped ==
    LET db_url == getenv(EnvName, <<>>)
    IN  IF db_url = <<>>
        THEN [ok |-> FALSE, error |-> "ValueError: NEON_DATABASE_URL is not set."]
        ELSE [ok |-> TRUE, url |-> db_url]

get_database_url ==
    LET db_url == Strip(getenv(EnvName, <<>>))
    IN  IF db_url = <<>>
        THEN [ok |-> FALSE, error |-> "ValueError: NEON_DATABASE_URL is not set."]
        ELSE [ok |-> TRUE, url |-> db_url]

\* Python's "not db_url" for db_url: str | None
Falsy(arg) == arg = None \/ arg = Str(<<>>)

\* if not db_url: db_url = get_database_url()
ResolveUrl(arg) ==
    IF Falsy(arg) THEN get_database_url ELSE [ok |-> TRUE, url |-> arg.s]

\* sa.create_engine accepts a string that begins name://
IsUrl(s) ==
    \E i \in 2..Len(s) :
        /\ i + 2 <= Len(s)
        /\ SubSeq(s, i, i + 2) = <<":", "/", "/">>
        /\ \A k \in 1..(i - 1) : s[k] \notin {" ", ":", "/"}

get_engine(url) ==
    IF IsUrl(url) THEN [ok |-> TRUE, url |-> url]
    ELSE [ok |-> FALSE, error |-> "ArgumentError: Could not parse SQLAlchemy URL"]

(***************************************************************************)
(* Schema: Base.metadata holds the table trait_measurements and the index  *)
(* on its trait column.                                                    *)
(***************************************************************************)
TableName == "trait_measurements"

MetadataObjects == <<TableName, "ix_trait_measurements_trait">>

\* Faulty variant: CREATE without looking whether the table exists
create_all_unchecked(objects) == objects \o MetadataObjects

\* Base.metadata.create_all(engine): checkfirst, so only what is absent
create_all(objects) ==
    IF TableName \in Range(objects) THEN objects
    ELSE objects \o MetadataObjects

(***************************************************************************)
(* session.bulk_insert_mappings(TraitMeasurement, rows): a key whose value *)
(* is None is left out of the INSERT, so the column takes its server       *)
(* default, or NULL; trait and recorded_at are NOT NULL columns.           *)
(***************************************************************************)
InsertError(rec) ==
    IF rec["recorded_at"] = NaT
    THEN "DataError: invalid input syntax for type timestamp with time zone"
    ELSE IF rec["trait"] = None
    THEN "IntegrityError: null value in column trait"
    ELSE "none"

StoredValue(c, v) ==
    IF c = "recorded_at" THEN (IF v = None THEN SqlNow ELSE v)
    ELSE IF c = "trait" THEN (IF v.t = "int" THEN Str(IntToText(v)) ELSE v)
    ELSE IF v = None THEN SqlNull
    ELSE v

StoredRow(rec, id) ==
    [c \in expected \cup {"id"} |->
        IF c = "id" THEN [t |-> "int", m |-> id] ELSE StoredValue(c, rec[c])]

ChunkError(rows) ==
    IF \A r \in DOMAIN rows : InsertError(rows[r]) = "none" THEN "none"
    ELSE InsertError(rows[CHOOSE r \in DOMAIN rows :
            /\ InsertError(rows[r]) # "none"
            /\ \A q \in 1..(r - 1) : InsertError(rows[q]) = "none"])

\* Faulty variant: ids counted from 1 in every chunk
InsertedRowsFromOne(rows, first) ==
    [r \in DOMAIN rows |-> StoredRow(rows[r], r)]

\* The rows a committed chunk adds, ids taken from the sequence in order
InsertedRows(rows, first) ==
    [r \in DOMAIN rows |-> StoredRow(rows[r], first + r - 1)]

\* Faulty variant: the first row of the failed chunk stays
RolledBackButOne(stored) == SubSeq(stored, 1, 1)

\* What stays in the table of a chunk whose insert or commit raised: the
\* session is closed on the way out of the with block, which rolls back
RolledBack(stored) == <<>>

\* A stored row without its id
Content(row) == [c \in expected |-> row[c]]

Contents(rows) == [r \in DOMAIN rows |-> Content(rows[r])]

(***************************************************************************)
(* Inputs.  A CSV file is [header, rows], every row aligned with the       *)
(* header.  Cells are taken from a vocabulary on which the parsers'        *)
(* answers are not in doubt: whole and decimal numerals, an alphabetic     *)
(* word, the empty cell, ISO dates.  Trait cells are never empty.          *)
(***************************************************************************)
CsvNames == <<"Trait">> \o [i \in 1..NumAxes |-> CsvAxis(i)] \o <<"Time">>

Reverse(s) == [i \in DOMAIN s |-> s[Len(s) + 1 - i]]

Without(s, names) == SelectSeq(s, LAMBDA n : n \notin names)

Replace(s, old, new) == [i \in DOMAIN s |-> IF s[i] = old THEN new ELSE s[i]]

HeaderShuffled == <<"Note">> \o Reverse(CsvNames)

HeaderNoTime == Without(CsvNames, {"Time"})

HeaderNoTraitAxis3 == Without(CsvNames, {"Trait", "Axis #3"})

HeaderDbTrait == Replace(CsvNames, "Trait", "trait")

RowKinds == {"ok", "num", "axis", "time"}

AxisCell(i, kind, idx) ==
    IF kind = "ok" /\ i = 1 THEN <<"1", ".", "5">>
    ELSE IF kind = "axis" /\ i = 2 THEN <<"a", "b", "c">>
    ELSE IF kind = "axis" /\ i = 3 THEN <<>>
    ELSE NatToDigits(10 * idx + i)

Cell(name, kind, idx) ==
    IF name \in {"Trait", "trait"}
    THEN (IF kind = "ok" THEN <<"t", "e", "m", "p">>
          ELSE IF kind = "num" THEN <<"0", "7">>
          ELSE <<"p", "r", "e", "s">>)
    ELSE IF name \in {"Time", "recorded_at"}
    THEN (IF kind = "time" THEN <<"x", "x">>
          ELSE <<"2", "0", "2", "4", "-", "0", "1", "-", "0">> \o NatToDigits(idx))
    ELSE IF \E i \in 1..NumAxes : name \in {CsvAxis(i), DbAxis(i)}
    THEN AxisCell(CHOOSE i \in 1..NumAxes : name \in {CsvAxis(i), DbAxis(i)},
                  kind, idx)
    ELSE <<"n", "o", "t", "e">>

MakeFile(header, kinds) ==
    [header |-> header,
     rows |-> [r \in DOMAIN kinds |->
                 [j \in DOMAIN header |-> Cell(header[j], kinds[r], r)]]]

KindSeqs(kinds, n) == UNION {[1..k -> kinds] : k \in 0..n}

Files ==
    {MakeFile(CsvNames, ks) : ks \in KindSeqs(RowKinds, MaxRows)}
    \cup {MakeFile(h, ks) :
            h \in {HeaderShuffled, HeaderNoTime, HeaderNoTraitAxis3, HeaderDbTrait},
            ks \in KindSeqs({"ok", "time"}, MaxRows - 1)}

Url == <<"d", ":", "/", "/", "h">>

Environs ==
    {<<>>,
     [n \in {EnvName} |-> <<" ">>],
     [n \in {EnvName} |-> <<" ">> \o Url \o <<" ">>]}

UrlArgs == {None, Str(<<>>), Str(<<" ">>), Str(Url)}

NoLoad == [arg |-> None, chunk_size |-> 0, pos |-> 0, first |-> FALSE,
           total_inserted |-> 0, start |-> 0]

NoFrame == [columns |-> <<>>, dtypes |-> <<>>, data |-> <<>>]

NoOut == [ok |-> FALSE, error |-> "not called", message |-> <<>>]

(***************************************************************************)
(* A completed call: what was asked, how it ended, what it touched.        *)
(***************************************************************************)
Call(op, arg, chunk_size, error, detail, value, rows, engine, start, end, chunks) ==
    [op |-> op, arg |-> arg, chunk_size |-> chunk_size,
     error |-> error,        \* "none" when the call returned
     detail |-> detail,      \* the columns an error message lists
     value |-> value,        \* the total insert_csv_to_database returned
     rows |-> rows,          \* the rows get_data_from_database returned
     engine |-> engine,      \* whether an engine was created
     start |-> start,        \* Len(table) when the call began
     end |-> end,            \* Len(table) when it ended
     chunks |-> chunks]      \* chunks read from the CSV file

\* Connection failures so far
Failures == Cardinality({i \in DOMAIN calls : calls[i].error = "OperationalError"})

MayFail == {FALSE} \cup {f \in {TRUE} : Failures < MaxFailures}

ValidEnviron == [n \in {EnvName} |-> <<" ">> \o Url \o <<" ">>]

\* Files of valid cells, the first Trait cell a word or a numeral
PlainFiles ==
    {MakeFile(CsvNames, [i \in 1..n |-> IF i = 1 THEN k ELSE "ok"]) :
        n \in 0..(MaxRows - 1), k \in {"ok", "num"}}

Init ==
    /\ environ = ValidEnviron
    /\ csv \in PlainFiles
    /\ schema = <<>>
    /\ table = <<>>
    /\ nextId = 1
    /\ pc = "idle"
    /\ load = NoLoad
    /\ calls = <<>>
    /\ df = NoFrame
    /\ out = NoOut

(***************************************************************************)
(* init_db(engine), called on an engine the caller made                    *)
(***************************************************************************)
InitDbCall ==
    /\ pc = "idle" /\ Len(calls) < MaxCalls
    /\ \E fail \in MayFail :
        /\ schema' = IF fail THEN schema ELSE create_all(schema)
        /\ calls' = Append(calls,
              Call("init_db", Str(Url), 0,
                   IF fail THEN "OperationalError" ELSE "none",
                   <<>>, 0, {}, TRUE, Len(table), Len(table), 0))
    /\ UNCHANGED <<environ, csv, table, nextId, pc, load, df, out>>

(***************************************************************************)
(* insert_csv_to_database, lines 130-136: up to the for loop               *)
(***************************************************************************)
InsertBegin(args) ==
    /\ pc = "idle" /\ Len(calls) < MaxCalls
    /\ \E arg \in args, chunk_size \in 1..MaxChunk, fail \in MayFail :
        LET u == ResolveUrl(arg)
            e == IF u.ok THEN get_engine(u.url) ELSE u
            raised(error, engine) ==
                /\ calls' = Append(calls,
                      Call("insert", arg, chunk_size, error, <<>>, 0, {}, engine,
                           Len(table), Len(table), 0))
                /\ UNCHANGED <<schema, pc, load>>
        IN  IF ~u.ok THEN raised(u.error, FALSE) /\ ~fail
            ELSE IF ~e.ok THEN raised(e.error, FALSE) /\ ~fail
            ELSE IF fail THEN raised("OperationalError", TRUE)
            ELSE /\ schema' = create_all(schema)
                 /\ pc' = "loop"
                 /\ load' = [arg |-> arg, chunk_size |-> chunk_size, pos |-> 0,
                             first |-> TRUE, total_inserted |-> 0,
                             start |-> Len(table)]
                 /\ UNCHANGED calls
    /\ UNCHANGED <<environ, csv, table, nextId, df, out>>

(***************************************************************************)
(* One iteration of the for loop, lines 138-145                            *)
(***************************************************************************)
ChunksRead(l) ==
    IF l.pos = 0 THEN (IF l.first THEN 0 ELSE 1)
    ELSE (l.pos + l.chunk_size - 1) \div l.chunk_size

InsertChunk ==
    /\ pc = "loop"
    /\ HasNextChunk(csv, load.pos, load.first)
    /\ LET chunk == ReadChunk(csv, load.pos, load.chunk_size)
           normalized == _normalize_columns(chunk)
           rows == _coerce_rows(normalized.frame)
           advanced == [load EXCEPT !.pos = @ + Len(chunk.data), !.first = FALSE]
           raised(error, detail, kept) ==
               /\ calls' = Append(calls,
                     Call("insert", load.arg, load.chunk_size, error, detail,
                          0, {}, TRUE, load.start, Len(table) + Len(kept),
                          ChunksRead(advanced)))
               /\ pc' = "idle"
               /\ load' = NoLoad
               /\ table' = table \o kept
       IN  IF ~normalized.ok
           THEN /\ raised("ValueError: CSV is missing columns",
                          normalized.message, <<>>)
                /\ nextId' = nextId
           ELSE IF rows = <<>>
           THEN /\ load' = advanced
                /\ UNCHANGED <<table, nextId, pc, calls>>
           ELSE \E fail \in MayFail :
                IF fail \/ ChunkError(rows) # "none"
                THEN /\ raised(IF fail THEN "OperationalError"
                               ELSE ChunkError(rows),
                               <<>>, RolledBack(InsertedRows(rows, nextId)))
                     /\ nextId' \in nextId..(nextId + Len(rows))
                ELSE /\ table' = table \o InsertedRows(rows, nextId)
                     /\ nextId' = nextId + Len(rows)
                     /\ load' = [advanced EXCEPT !.total_inserted = @ + Len(rows)]
                     /\ UNCHANGED <<pc, calls>>
    /\ UNCHANGED <<environ, csv, schema, df, out>>

(***************************************************************************)
(* return total_inserted, line 147                                         *)
(***************************************************************************)
InsertReturn ==
    /\ pc = "loop"
    /\ ~HasNextChunk(csv, load.pos, load.first)
    /\ calls' = Append(calls,
          Call("insert", load.arg, load.chunk_size, "none", <<>>,
               load.total_inserted, {}, TRUE, load.start, Len(table),
               ChunksRead(load)))
    /\ pc' = "idle"
    /\ load' = NoLoad
    /\ UNCHANGED <<environ, csv, schema, table, nextId, df, out>>

(***************************************************************************)
(* get_data_from_database                                                  *)
(***************************************************************************)
GetData(args) ==
    /\ pc = "idle" /\ Len(calls) < MaxCalls
    /\ \E arg \in args, fail \in MayFail :
        LET u == ResolveUrl(arg)
            e == IF u.ok THEN get_engine(u.url) ELSE u
            done(error, rows, engine) ==
                calls' = Append(calls,
                    Call("get", arg, 0, error, <<>>, 0, rows, engine,
                         Len(table), Len(table), 0))
        IN  IF ~u.ok THEN done(u.error, {}, FALSE) /\ ~fail
            ELSE IF ~e.ok THEN done(e.error, {}, FALSE) /\ ~fail
            ELSE IF fail THEN done("OperationalError", {}, TRUE)
            ELSE IF TableName \notin Range(schema)
            THEN done("ProgrammingError: relation does not exist", {}, TRUE)
            ELSE done("none", Range(table), TRUE)
    /\ UNCHANGED <<environ, csv, schema, table, nextId, pc, load, df, out>>

(***************************************************************************)
(* Sequences of calls of init_db, the loader and the reader on a database  *)
(* whose connection string comes from the environment.                     *)
(***************************************************************************)
Next ==
    \/ InitDbCall
    \/ InsertBegin({None})
    \/ InsertChunk
    \/ InsertReturn
    \/ GetData({None})

Spec == Init /\ [][Next]_vars

(***************************************************************************)
(* One call of insert_csv_to_database on any of the files, the database    *)
(* new or left by an earlier load of a one-row file.                       *)
(***************************************************************************)
EarlierRows ==
    InsertedRows(
        _coerce_rows(_normalize_columns(
            ReadChunk(MakeFile(CsvNames, <<"ok">>), 0, 1)).frame), 1)

InitLoad ==
    /\ environ = ValidEnviron
    /\ csv \in Files
    /\ \E loaded \in BOOLEAN :
        /\ schema = IF loaded THEN MetadataObjects ELSE <<>>
        /\ table = IF loaded THEN EarlierRows ELSE <<>>
        /\ nextId = IF loaded THEN Len(EarlierRows) + 1 ELSE 1
    /\ pc = "idle"
    /\ load = NoLoad
    /\ calls = <<>>
    /\ df = NoFrame
    /\ out = NoOut

InsertCall == calls = <<>> /\ InsertBegin({None})

NextLoad ==
    \/ InsertCall
    \/ InsertChunk
    \/ InsertReturn

SpecLoad == InitLoad /\ [][NextLoad]_vars

(***************************************************************************)
(* The same operations under every environment and db_url argument.        *)
(***************************************************************************)
ConfigFiles == {MakeFile(CsvNames, ks) : ks \in KindSeqs({"ok"}, 1)}

InitConfig ==
    /\ environ \in Environs
    /\ csv \in ConfigFiles
    /\ schema = <<>>
    /\ table = <<>>
    /\ nextId = 1
    /\ pc = "idle"
    /\ load = NoLoad
    /\ calls = <<>>
    /\ df = NoFrame
    /\ out = NoOut

NextConfig ==
    \/ InsertBegin(UrlArgs)
    \/ InsertChunk
    \/ InsertReturn
    \/ GetData(UrlArgs)

SpecConfig == InitConfig /\ [][NextConfig]_vars

(***************************************************************************)
(* _normalize_columns called on one chunk as read_csv delivers it          *)
(***************************************************************************)
HeaderRotated == Tail(CsvNames) \o <<"Trait">>

HeaderExtraDb == CsvNames \o <<"trait">>

HeaderExtraDbFirst == <<"recorded_at", "Note">> \o CsvNames

Frames ==
    {ReadChunk(MakeFile(h, ks), 0, Len(ks)) :
        h \in {CsvNames, HeaderShuffled, HeaderRotated, HeaderNoTime,
               HeaderNoTraitAxis3, HeaderDbTrait, HeaderExtraDb,
               HeaderExtraDbFirst},
        ks \in KindSeqs({"ok", "axis", "time"}, MaxRows - 1)}

InitNormalize ==
    /\ environ = ValidEnviron
    /\ csv = MakeFile(CsvNames, <<>>)
    /\ schema = <<>>
    /\ table = <<>>
    /\ nextId = 1
    /\ pc = "idle"
    /\ load = NoLoad
    /\ calls = <<>>
    /\ df \in Frames
    /\ out = NoOut

NormalizeCall ==
    /\ out = NoOut
    /\ out' = _normalize_columns(df)
    /\ UNCHANGED <<environ, csv, schema, table, nextId, pc, load, calls, df>>

SpecNormalize == InitNormalize /\ [][NormalizeCall]_vars

(***************************************************************************)
(* Properties of _normalize_columns                                        *)
(***************************************************************************)
\* The output has the 16 database columns once each, in order, the rows of
\* the input in order, and under each column the cells of the input column
\* of the corresponding name (its CSV name, or the database name when the
\* input column already carries it)
NormalizedFrom(d, o) ==
    /\ o.frame.columns = ordered_columns
    /\ Len(o.frame.data) = Len(d.data)
    /\ \A k \in DOMAIN CsvNames :
        \E j \in DOMAIN d.columns :
            /\ d.columns[j] \in {CsvNames[k], ordered_columns[k]}
            /\ \A r \in DOMAIN d.data :
                /\ Len(o.frame.data[r]) = Len(ordered_columns)
                /\ o.frame.data[r][k] = d.data[r][j]

\* No database column has two sources in the chunk
OneSourceEach(d) ==
    \A k \in DOMAIN CsvNames :
        Cardinality({j \in DOMAIN d.columns :
            d.columns[j] \in {CsvNames[k], ordered_columns[k]}}) <= 1

InsertCalls == {i \in DOMAIN calls : calls[i].op = "insert"}

MissingColumns == "ValueError: CSV is missing columns"

NotSet == "ValueError: NEON_DATABASE_URL is not set."

StorageErrors ==
    {"OperationalError",
     "DataError: invalid input syntax for type timestamp with time zone",
     "IntegrityError: null value in column trait"}

\* The header has every one of the 16 CSV names
RequiredPresent ==
    \A k \in DOMAIN CsvNames : \E j \in DOMAIN csv.header : csv.header[j] = CsvNames[k]

\* The database names that no column of the header supplies
MissingDb ==
    {ordered_columns[k] : k \in {k \in DOMAIN CsvNames :
        \A j \in DOMAIN csv.header :
            csv.header[j] \notin {CsvNames[k], ordered_columns[k]}}}

\* The cell of data row r under the column that supplies database column k
SourceCell(r, k) ==
    csv.rows[r][CHOOSE j \in DOMAIN csv.header :
                    csv.header[j] \in {CsvNames[k], ordered_columns[k]}]

AxisColumns == 2..(NumAxes + 1)

TimeColumn == NumAxes + 2

\* Every cell of the file parses: a trait label, numerals, dates
WellFormed ==
    /\ RequiredPresent
    /\ \A r \in DOMAIN csv.rows :
        /\ SourceCell(r, 1) # <<>>
        /\ \A k \in AxisColumns : IsNumeral(SourceCell(r, k))
        /\ IsDate(SourceCell(r, TimeColumn))

\* The rows a completed call committed, without their ids
Added(c) == Contents(SubSeq(table, c.start + 1, c.end))

BagOf(seq) ==
    [x \in Range(seq) |-> Cardinality({i \in DOMAIN seq : seq[i] = x})]

\* The table positions filled by the load that read data row r of the file
PositionsOf(r) ==
    {calls[i].start + r : i \in {i \in InsertCalls :
                                    calls[i].start + r <= calls[i].end}}
    \cup {load.start + r : x \in {x \in {pc} : x = "loop" /\ load.start + r <= Len(table)}}

(***************************************************************************)
(* C1, C2: totals and chunk sizes                                          *)
(***************************************************************************)
\* C1 as stated: every load of a file that has the 16 required columns, with
\* any chunk size, returns (no connection failure given) the number of data
\* rows of the file, and the table has gained exactly that many rows.
C1_EveryFileLoads ==
    \A i \in InsertCalls :
        (RequiredPresent /\ calls[i].error # "OperationalError") =>
            /\ calls[i].error = "none"
            /\ calls[i].value = Len(csv.rows)
            /\ calls[i].end - calls[i].start = Len(csv.rows)

\* C2 as stated: two loads of one well-formed file (every cell parses), with
\* whatever chunk sizes, return the same total and store the same multiset
\* of rows, one per source row.
C2_ChunkSizeIrrelevant ==
    \A i, j \in InsertCalls :
        (/\ WellFormed
         /\ calls[i].error # "OperationalError"
         /\ calls[j].error # "OperationalError") =>
            /\ calls[i].error = "none" /\ calls[j].error = "none"
            /\ calls[i].value = calls[j].value
            /\ Len(Added(calls[i])) = Len(csv.rows)
            /\ BagOf(Added(calls[i])) = BagOf(Added(calls[j]))

(***************************************************************************)
(* C3: missing columns                                                     *)
(***************************************************************************)
\* C3 as stated: a load of a file whose header lacks any of the 16 CSV names
\* Trait, Axis #1..Axis #14, Time fails with the validation error, which
\* lists every missing column, and no row of the file is committed.
C3_LacksCsvName ==
    /\ \A i \in InsertCalls :
        (~RequiredPresent /\ calls[i].error # "OperationalError") =>
            /\ calls[i].error = MissingColumns
            /\ calls[i].end = calls[i].start
    /\ (pc = "loop" /\ ~RequiredPresent) => Len(table) = load.start

\* C3, amended: a load of a file whose header supplies some database column
\* neither under its CSV name nor under its database name fails (no
\* connection failure given) on the first chunk with the validation error,
\* whose message lists every such column, each once and in sorted order, and
\* no row of the file is inserted or committed, whatever the chunk size and
\* the number of rows.
C3_MissingColumns ==
    /\ \A i \in InsertCalls :
        (MissingDb # {} /\ calls[i].error # "OperationalError") =>
            /\ calls[i].error = MissingColumns
            /\ calls[i].detail = SelectSeq(SortedNames, LAMBDA n : n \in MissingDb)
            /\ calls[i].end = calls[i].start
            /\ calls[i].chunks = 1
    /\ (pc = "loop" /\ MissingDb # {}) => (Len(table) = load.start /\ load.pos = 0)

\* A two-row file lacking two columns was loaded with chunk size 1
C3_Witness ==
    \E i \in InsertCalls :
        /\ calls[i].error = MissingColumns
        /\ Len(calls[i].detail) = 2
        /\ Len(csv.rows) = 2
        /\ calls[i].chunk_size = 1

(***************************************************************************)
(* C4: committed chunks form a prefix                                      *)
(***************************************************************************)
\* What chunk k of the file stores when read with chunk size c
ChunkContents(k, c) ==
    Contents(InsertedRows(
        _coerce_rows(_normalize_columns(ReadChunk(csv, (k - 1) * c, c)).frame), 0))

\* rows are the rows of the first k chunks of the file, chunk by chunk
FirstChunks(rows, k, c) ==
    Contents(rows) = Flatten([j \in 1..k |-> ChunkContents(j, c)])

\* C4: while a load runs, the rows it has committed are exactly the rows of
\* the chunks it has read so far, whole chunks only; and a load that a
\* storage error on its chunk k+1 ended has raised that error at once, left
\* chunks 1..k committed and no row of chunk k+1, and read no later chunk.
C4_WholeChunkPrefix ==
    /\ (pc = "loop" /\ MissingDb = {}) =>
          /\ FirstChunks(SubSeq(table, load.start + 1, Len(table)),
                         ChunksRead(load), load.chunk_size)
          /\ load.total_inserted = Len(table) - load.start
    /\ \A i \in InsertCalls :
          (calls[i].error \in StorageErrors /\ calls[i].chunks >= 1) =>
              /\ FirstChunks(SubSeq(table, calls[i].start + 1, calls[i].end),
                             calls[i].chunks - 1, calls[i].chunk_size)
              /\ (calls[i].chunks - 1) * calls[i].chunk_size < Len(csv.rows)

\* The second chunk of a load failed on the connection after the first,
\* of two rows, was committed
C4_Witness ==
    \E i \in InsertCalls :
        /\ calls[i].error = "OperationalError"
        /\ calls[i].chunks = 2
        /\ calls[i].chunk_size = 2
        /\ calls[i].end - calls[i].start = 2
        /\ Len(csv.rows) = 3

(***************************************************************************)
(* C5, C6: cells that do not parse                                         *)
(***************************************************************************)
HasWord(r) == \E k \in AxisColumns : SourceCell(r, k) = <<"a", "b", "c">>

\* C5 as stated: a load of a file whose only defect is non-numeric axis
\* cells does not raise, and every row is stored with NULL in exactly the
\* axis fields whose cell is not numeric, its trait and its other axis
\* values as given in the file.
C5_AxisNull ==
    /\ \A i \in InsertCalls :
        (/\ RequiredPresent
         /\ \A r \in DOMAIN csv.rows : IsDate(SourceCell(r, TimeColumn))
         /\ calls[i].error # "OperationalError") => calls[i].error = "none"
    /\ \A r \in DOMAIN csv.rows : \A p \in PositionsOf(r) :
        HasWord(r) =>
            /\ table[p]["trait"] = Str(SourceCell(r, 1))
            /\ \A k \in AxisColumns :
                table[p][ordered_columns[k]] =
                    IF IsNumeral(SourceCell(r, k)) THEN ParseFloat(SourceCell(r, k))
                    ELSE SqlNull

\* C6 as stated: a load of a file with a Time cell that is no date does not
\* raise and returns the number of rows; a row with such a cell is stored
\* with recorded_at NULL, every other row with its parsed timestamp.
C6_TimeNull ==
    /\ \A i \in InsertCalls :
        (RequiredPresent /\ calls[i].error # "OperationalError") =>
            /\ calls[i].error = "none"
            /\ calls[i].value = Len(csv.rows)
    /\ \A r \in DOMAIN csv.rows : \A p \in PositionsOf(r) :
        table[p]["recorded_at"] =
            IF IsDate(SourceCell(r, TimeColumn))
            THEN to_datetime(Str(SourceCell(r, TimeColumn)))
            ELSE SqlNull

(***************************************************************************)
(* C8: init_db                                                             *)
(***************************************************************************)
\* init_db ran to its end in this step: on its own, or at the start of a load
InitDbRan ==
    \/ /\ Len(calls') = Len(calls) + 1
       /\ calls'[Len(calls')].op = "init_db"
       /\ calls'[Len(calls')].error = "none"
    \/ pc = "idle" /\ pc' = "loop"

\* C8: the schema is never anything but absent or present once; init_db on
\* a database that has the table changes neither the schema objects nor any
\* stored row, and init_db on one that has not creates them.
C8_InitDbIdempotent ==
    /\ [](schema \in {<<>>, MetadataObjects})
    /\ [][InitDbRan => /\ schema' = MetadataObjects
                       /\ table' = table
                       /\ nextId' = nextId]_vars

\* init_db has run twice, the second time on a table that holds rows
C8_Witness ==
    /\ Len(calls) = 2
    /\ calls[1].op = "insert" /\ calls[1].value >= 1
    /\ calls[2].op = "init_db" /\ calls[2].error = "none"
    /\ table # <<>>

(***************************************************************************)
(* C9: the table only grows                                                *)
(***************************************************************************)
IsPrefix(a, b) == Len(a) <= Len(b) /\ a = SubSeq(b, 1, Len(a))

\* C9: every step leaves the committed rows, ids included, as they were and
\* at most appends rows; ids are pairwise distinct; get_data_from_database
\* returns exactly the rows stored when it ran and changes nothing; and a
\* file loaded again is stored again, as many rows, after the first ones.
C9_AppendOnly ==
    /\ [][IsPrefix(table, table')]_vars
    /\ [][(Len(calls') = Len(calls) + 1 /\ calls'[Len(calls')].op = "get") =>
            /\ <<schema, table, nextId>>' = <<schema, table, nextId>>
            /\ (calls'[Len(calls')].error = "none" =>
                    calls'[Len(calls')].rows = Range(table))]_vars
    /\ [](\A p, q \in DOMAIN table : p # q => table[p]["id"] # table[q]["id"])
    /\ [](\A i, j \in InsertCalls :
            (i < j /\ calls[i].error = "none" /\ calls[j].error = "none") =>
                /\ calls[i].end <= calls[j].start
                /\ calls[j].end - calls[j].start = calls[i].end - calls[i].start
                /\ calls[j].value = calls[j].end - calls[j].start)

\* One file of two rows was loaded twice
C9_Witness ==
    /\ Len(calls) = 2
    /\ \A i \in {1, 2} :
        calls[i].op = "insert" /\ calls[i].error = "none" /\ calls[i].value = 2
    /\ Len(table) = 4

(***************************************************************************)
(* C7: the connection string                                               *)
(***************************************************************************)
IsBlank(text) == \A k \in DOMAIN text : text[k] = " "

\* NEON_DATABASE_URL is absent, empty or whitespace only
EnvBlank == EnvName \notin DOMAIN environ \/ IsBlank(environ[EnvName])

UrlCalls == {i \in DOMAIN calls : calls[i].op \in {"insert", "get"}}

NothingDone(c) ==
    /\ ~c.engine
    /\ c.chunks = 0
    /\ c.end = c.start
    /\ c.rows = {}

\* The step is a call that ended with the given error
EndedWith(error) ==
    /\ Len(calls') = Len(calls) + 1
    /\ calls'[Len(calls')].error = error

\* C7 as stated: a call given no connection string while the environment
\* variable is absent or blank, and a call given a blank connection string,
\* fail before anything else happens (no engine, no schema, no chunk read,
\* no row inserted or fetched).
C7_BlankAlwaysFails ==
    \A i \in UrlCalls :
        (\/ calls[i].arg = None /\ EnvBlank
         \/ calls[i].arg.t = "str" /\ IsBlank(calls[i].arg.s)) =>
            /\ calls[i].error # "none"
            /\ NothingDone(calls[i])

\* C7, amended: a call given no connection string, or the empty string,
\* while the environment variable is absent or blank (empty or whitespace
\* only) fails with the configuration error before anything else happens:
\* no engine, no schema object, no chunk read, no row inserted or fetched.
\* Given no connection string or the empty string while the variable holds a
\* URL, the call uses that URL, stripped, and does not fail so; a
\* whitespace-only string given by the caller is not looked up in the
\* environment and fails when the engine is created.
C7_ConfigurationError ==
    /\ [](\A i \in UrlCalls :
            /\ (Falsy(calls[i].arg) /\ EnvBlank) =>
                  (calls[i].error = NotSet /\ NothingDone(calls[i]))
            /\ (Falsy(calls[i].arg) /\ ~EnvBlank) =>
                  (calls[i].error # NotSet /\ calls[i].engine)
            /\ calls[i].arg = Str(<<" ">>) =>
                  (calls[i].error \notin {"none", NotSet} /\ NothingDone(calls[i])))
    /\ []((pc = "loop" /\ Falsy(load.arg)) => ~EnvBlank)
    /\ [][EndedWith(NotSet) => <<schema, table, nextId, pc>>' = <<schema, table, nextId, pc>>]_vars

\* Both operations were called with the empty string while the variable
\* held whitespace only
C7_Witness ==
    /\ Len(calls) = 2
    /\ EnvName \in DOMAIN environ /\ environ[EnvName] = <<" ">>
    /\ calls[1].op = "insert" /\ calls[2].op = "get"
    /\ \A i \in {1, 2} : calls[i].arg = Str(<<>>) /\ calls[i].error = NotSet

====
